---- MODULE Spec2Model ----
(***************************************************************************)
(* Model of the Gemini agentic RAG application                             *)
(* (rag_tutorials/gemini_agentic_rag/my_project).                          *)
(*                                                                         *)
(* main() is a Streamlit script: every user interaction runs it from the   *)
(* top against the persistent st.session_state.  A run is modelled as the  *)
(* sequence of its steps (sidebar, Qdrant client and reconciliation, API   *)
(* key check, PDF upload, URL upload, chat input, and the four stages of   *)
(* the query pipeline), each step one action.  The hosted services (the    *)
(* agents, the retriever, Qdrant) are external: every outcome they can     *)
(* give, an exception included, is a nondeterministic choice.              *)
(*                                                                         *)
(* Texts (prompts, contexts, answers) are sequences of string tokens, so   *)
(* that concatenation, joining and containment are computed.  Source       *)
(* identifiers (file names, URLs) are sequences of character codes, so     *)
(* that lexicographic order is computed.                                   *)
(***************************************************************************)
EXTENDS Integers, Sequences, FiniteSets, TLC

(***************************************************************************)
(* Bounds of the model.                                                    *)
(***************************************************************************)
\* user turns (chat prompts) in one session
MaxTurns == 2
\* chunks one retriever call returns in the model (the code asks for at most K)
MaxDocs == 2
\* records of a collection handed to get_indexed_documents on its own
MaxPoints == 2
\* records per scroll page in the model: services.py:73 asks for 100 a page,
\* scaled down so that a collection of a few records spans several pages
ScrollLimit == 1

(***************************************************************************)
(* Program constants.                                                      *)
(***************************************************************************)
\* main.py:140, "k": 5
K == 5
\* ui.py:15, similarity_threshold default 0.7, in tenths
DefaultThreshold == 7

(***************************************************************************)
(* Value domains.                                                          *)
(***************************************************************************)
\* slider positions (tenths of the [0.0, 1.0] range of ui.py:70-76)
Thresholds == {3, DefaultThreshold}
\* what the user types as Qdrant API key and URL
QdrantInputs == {<<"", "">>, <<"k", "u">>}
Prompts == {<<"q">>}
RewriteOutputs == {<<"r">>}
WebOutputs == {<<"w">>, <<>>}
Responses == {<<"a">>}
\* source identifiers: "a" < "ab" < "b" lexicographically
IdA == <<1>>
IdAB == <<1, 2>>
IdB == <<2>>
Ids == {IdA, IdAB, IdB}
\* the PDF names and the URLs the user submits in a session
PdfNames == {IdA}
Urls == {IdB}
\* the temporary path PyPDFLoader records as "source" (services.py:130-133)
TmpPath == <<3>>
\* Python's None where an identifier or a file is optional (no real identifier
\* holds the character code 0)
None == <<0>>

Min(a, b) == IF a < b THEN a ELSE b

Range(s) == {s[i] : i \in 1..Len(s)}

BoundedSeq(S, n) == UNION {[1..m -> S] : m \in 0..n}

NoDuplicates(s) == \A i, j \in 1..Len(s) : s[i] = s[j] => i = j

\* t occurs in s as a contiguous run of tokens (Python's `t in s` on strings)
Contains(s, t) ==
    \E i \in 0..(Len(s) - Len(t)) : SubSeq(s, i + 1, i + Len(t)) = t

\* sep.join(parts) of Python
RECURSIVE Join(_, _)
Join(parts, sep) ==
    IF parts = <<>> THEN <<>>
    ELSE IF Len(parts) = 1 THEN parts[1]
    ELSE parts[1] \o sep \o Join(Tail(parts), sep)

\* s < t in the lexicographic order of Python strings
RECURSIVE LexLess(_, _)
LexLess(s, t) ==
    IF t = <<>> THEN FALSE
    ELSE IF s = <<>> THEN TRUE
    ELSE IF s[1] < t[1] THEN TRUE
    ELSE IF s[1] > t[1] THEN FALSE
    ELSE LexLess(Tail(s), Tail(t))

LexLeq(s, t) == s = t \/ LexLess(s, t)

\* ascending in the lexicographic order, equal neighbours allowed
IsSorted(s) == \A i \in 1..(Len(s) - 1) : LexLeq(s[i], s[i + 1])

\* bool(v) of Python for an optional string
Truthy(v) == v # None /\ v # <<>>

\* d.get(k) of Python
Get(d, k) == IF k \in DOMAIN d THEN d[k] ELSE None

(***************************************************************************)
(* The vector database as services.py uses it.  A stored record (point)    *)
(* is its payload: a function from some of the keys page_content,          *)
(* file_name, url, source, metadata to values; the empty function stands   *)
(* for a record without payload.  A metadata value is [isdict, d]: whether *)
(* it is a dict, and the dict.                                             *)
(***************************************************************************)
Dict(d) == [isdict |-> TRUE, d |-> d]
NotADict == [isdict |-> FALSE, d |-> <<>>]

\* the chunk process_pdf makes of a PDF named `name` (services.py:136-147)
PdfChunk(name) ==
    [page_content |-> <<"c">>,
     metadata |-> Dict([source |-> TmpPath, file_name |-> name])]

\* the chunk process_web makes of the page at `url` (services.py:163-177)
WebChunk(url) ==
    [page_content |-> <<"c">>,
     metadata |-> Dict([source |-> url, url |-> url])]

\* the source name get_indexed_documents reads from one payload
\* (services.py:88-103)
SourceName(p) ==
    IF "file_name" \in DOMAIN p THEN p["file_name"]
    ELSE IF "url" \in DOMAIN p THEN p["url"]
    ELSE IF "source" \in DOMAIN p THEN p["source"]
    ELSE IF "metadata" \in DOMAIN p THEN
        LET metadata == p["metadata"] IN
        IF metadata.isdict THEN
            IF Truthy(Get(metadata.d, "file_name")) THEN Get(metadata.d, "file_name")
            ELSE IF Truthy(Get(metadata.d, "url")) THEN Get(metadata.d, "url")
            ELSE Get(metadata.d, "source")
        ELSE None
    ELSE None

\* the sources one page of points adds (services.py:82-106)
PageSources(page) ==
    {SourceName(p) : p \in {q \in Range(page) : DOMAIN q # {} /\ Truthy(SourceName(q))}}

\* client.scroll(limit, offset): a page and the offset of the next one, 0 for
\* None (services.py:70-77)
Scroll(pts, offset, limit) ==
    LET from == IF offset = 0 THEN 1 ELSE offset
        to == Min(Len(pts), from + limit - 1)
    IN [points |-> SubSeq(pts, from, to),
        next_offset |-> IF to < Len(pts) THEN to + 1 ELSE 0]

\* sorted(list(sources)) (services.py:119)
RECURSIVE SortedList(_)
SortedList(S) ==
    IF S = {} THEN <<>>
    ELSE LET m == CHOOSE x \in S : \A y \in S : LexLeq(x, y)
         IN <<m>> \o SortedList(S \ {m})

\* the while loop of services.py:69-111; `call` numbers the client call about
\* to be made and `fail` is the call that raises (0: none does)
RECURSIVE ScrollLoop(_, _, _, _, _)
ScrollLoop(pts, offset, sources, call, fail) ==
    IF call = fail THEN [raised |-> TRUE, sources |-> sources, scrolls |-> call - 2]
    ELSE LET page == Scroll(pts, offset, ScrollLimit) IN
         IF page.points = <<>>
         THEN [raised |-> FALSE, sources |-> sources, scrolls |-> call - 2]
         ELSE IF page.next_offset = 0
         THEN [raised |-> FALSE, sources |-> sources \cup PageSources(page.points),
               scrolls |-> call - 2]
         ELSE ScrollLoop(pts, page.next_offset,
                         sources \cup PageSources(page.points), call + 1, fail)

\* get_indexed_documents(client) on a collection (services.py:49-124): the
\* list it returns and the number of scroll calls it made.  Client call 1 is
\* collection_exists, call 2 get_collection, calls 3.. the scrolls.
IndexedDocuments(exists, pts, fail) ==
    IF fail = 1 THEN [result |-> <<>>, scrolls |-> 0, raised |-> TRUE]
    ELSE IF ~exists THEN [result |-> <<>>, scrolls |-> 0, raised |-> FALSE]
    ELSE IF fail = 2 THEN [result |-> <<>>, scrolls |-> 0, raised |-> TRUE]
    ELSE IF Len(pts) = 0 THEN [result |-> <<>>, scrolls |-> 0, raised |-> FALSE]
    ELSE LET r == ScrollLoop(pts, 0, {}, 3, fail) IN
         IF r.raised THEN [result |-> <<>>, scrolls |-> r.scrolls, raised |-> TRUE]
         ELSE [result |-> SortedList(r.sources), scrolls |-> r.scrolls,
               raised |-> FALSE]

get_indexed_documents(exists, pts, fail) == IndexedDocuments(exists, pts, fail).result

(***************************************************************************)
(* create_vector_store (services.py:182-214).  `out` holds what the three  *)
(* external calls do: out.create is "created", or the exception            *)
(* create_collection raises ("already exists", "timeout"); out.construct   *)
(* and out.add tell whether QdrantVectorStore(...) and add_documents       *)
(* succeed.  An exception is the string naming it, "none" for none.        *)
(***************************************************************************)
CreateOutcomes == {"created", "already exists", "timeout"}

\* what create_collection can do on a collection that exists or not
CreatePossible(exists, create) ==
    /\ create = "created" => ~exists
    /\ create = "already exists" => exists

\* "already exists" in str(e).lower() (services.py:196)
MentionsAlreadyExists(exc) == exc = "already exists"

\* an inner handler that lets every exception of create_collection through
InnerTryStrict(create) == IF create = "created" THEN "none" ELSE create

\* the inner try/except of services.py:186-197: the exception that leaves it
InnerTry(create) ==
    IF create = "created" THEN "none"
    ELSE IF ~MentionsAlreadyExists(create) THEN create
    ELSE "none"

\* the body of the outer try (services.py:185-210): the exception that leaves
\* it, the store it would return, and the collection afterwards
OuterBody(exists, pts, texts, out) ==
    LET e1 == InnerTry(out.create)
        exists1 == exists \/ out.create = "created"
    IN IF e1 # "none"
       THEN [exc |-> e1, built |-> FALSE, exists |-> exists1, points |-> pts]
       ELSE IF ~out.construct
       THEN [exc |-> "construct", built |-> FALSE, exists |-> exists1, points |-> pts]
       ELSE IF ~out.add
       THEN [exc |-> "add_documents", built |-> TRUE, exists |-> exists1, points |-> pts]
       ELSE [exc |-> "none", built |-> TRUE, exists |-> exists1,
             points |-> pts \o texts]

\* `except Exception` of services.py:212 catches whatever the body raises
Caught(exc) == exc # "none"

\* create_vector_store(client, texts): vector_store is whether a store is
\* returned (FALSE: None), raised the exception that reaches the caller,
\* reported the exception shown with st.error (services.py:212-214)
create_vector_store(exists, pts, texts, out) ==
    LET b == OuterBody(exists, pts, texts, out) IN
    [vector_store |-> b.exc = "none",
     raised |-> IF Caught(b.exc) THEN "none" ELSE b.exc,
     reported |-> IF Caught(b.exc) THEN b.exc ELSE "none",
     built |-> b.built,
     exists |-> b.exists,
     points |-> b.points]


(***************************************************************************)
(* State.                                                                  *)
(***************************************************************************)
VARIABLES
    \* st.session_state (ui.py:5-16, main.py:45-51)
    google_api_key, qdrant_api_key, qdrant_url, vector_store,
    processed_documents, history, exa_api_key, use_web_search,
    force_web_search, similarity_threshold, documents_loaded,
    \* the cached result of get_cloud_qdrant_client (services.py:25-34)
    cloud_client,
    \* the collection in the vector database
    collection_exists, points,
    \* the position in main() and its local variables
    pc, qdrant_client, prompt, rewritten_query, context, docs,
    \* observations of the current run: the calls made to the external agents
    \* and to the retriever, the stages that raised, the history when the
    \* chat prompt arrived, the sources submitted through the upload widgets
    calls, raised, history_before, uploads,
    \* the last call of a function of services.py made on its own, with its
    \* arguments and what it returned
    probe,
    \* how many times the session has executed main.py:47, the call of
    \* get_indexed_documents that reconciles processed_documents
    reconciliations

session == <<google_api_key, qdrant_api_key, qdrant_url, vector_store,
             processed_documents, history, exa_api_key, use_web_search,
             force_web_search, similarity_threshold, documents_loaded>>
database == <<cloud_client, collection_exists, points>>
locals == <<qdrant_client, prompt, rewritten_query, context, docs>>
observed == <<calls, raised, history_before, uploads>>
vars == <<session, database, pc, locals, observed, probe, reconciliations>>

NoProbe == [op |-> "none"]

NoCalls == [rewriter |-> <<>>, retriever |-> <<>>, web |-> <<>>, rag |-> <<>>]

\* the collections a session can find in the database when it starts: none,
\* an empty one, one written by an earlier session of this application, one
\* holding a record with an empty text written by another tool
EmptyTextPoint == [page_content |-> <<>>, metadata |-> Dict([source |-> IdAB])]
StartCollections ==
    {[exists |-> FALSE, points |-> <<>>],
     [exists |-> TRUE, points |-> <<>>],
     [exists |-> TRUE, points |-> <<PdfChunk(IdA)>>],
     [exists |-> TRUE, points |-> <<EmptyTextPoint>>]}

\* the locals and observations of a run that has not started
FreshRun ==
    /\ qdrant_client = FALSE
    /\ prompt = <<>>
    /\ rewritten_query = <<>>
    /\ context = <<>>
    /\ docs = <<>>
    /\ calls = NoCalls
    /\ raised = {}
    /\ history_before = <<>>
    /\ uploads = <<>>

\* init_session_state (ui.py:3-20) on a new session.  documents_loaded is not
\* among its defaults although main.py:45 reads it: the key is absent from
\* the session unless something outside ui.py and main.py has set it, so both
\* sessions are initial states
Init ==
    /\ google_api_key = ""
    /\ qdrant_api_key = ""
    /\ qdrant_url = ""
    /\ vector_store = FALSE
    /\ processed_documents = <<>>
    /\ history = <<>>
    /\ exa_api_key = ""
    /\ use_web_search = FALSE
    /\ force_web_search = FALSE
    /\ similarity_threshold = DefaultThreshold
    /\ documents_loaded \in {"absent", "False"}
    /\ cloud_client = "uncached"
    /\ \E c \in StartCollections :
        /\ collection_exists = c.exists
        /\ points = c.points
    /\ pc = "idle"
    /\ FreshRun
    /\ probe = NoProbe
    /\ reconciliations = 0

ResetRun ==
    /\ qdrant_client' = FALSE
    /\ prompt' = <<>>
    /\ rewritten_query' = <<>>
    /\ context' = <<>>
    /\ docs' = <<>>
    /\ calls' = NoCalls
    /\ raised' = {}
    /\ history_before' = <<>>
    /\ uploads' = <<>>

\* an exception nothing in main() catches: Streamlit shows it and the run ends
Crash(what) ==
    /\ pc' = "crashed"
    /\ raised' = raised \cup {what}

(***************************************************************************)
(* render_sidebar (ui.py:22-78), at the start of a run.                    *)
(***************************************************************************)
Sidebar ==
    /\ pc = "idle"
    /\ \E gk \in {"", "g"}, qd \in QdrantInputs, clear \in BOOLEAN,
          uws \in BOOLEAN, exa \in {"", "e"}, thr \in Thresholds :
        /\ google_api_key' = gk
        /\ qdrant_api_key' = qd[1]
        /\ qdrant_url' = qd[2]
        /\ IF clear
           THEN \* ui.py:42-44: st.rerun() ends this run here
                /\ history' = <<>>
                /\ pc' = "idle"
                /\ UNCHANGED <<use_web_search, exa_api_key, similarity_threshold>>
           ELSE /\ use_web_search' = uws
                /\ exa_api_key' = IF uws THEN exa ELSE exa_api_key
                /\ similarity_threshold' = thr
                /\ pc' = "qdrant"
                /\ UNCHANGED history
    /\ UNCHANGED <<vector_store, processed_documents, force_web_search,
                   documents_loaded, database, locals, observed>>
    /\ UNCHANGED <<probe, reconciliations>>

(***************************************************************************)
(* init_qdrant (services.py:36-47) and the reconciliation of               *)
(* processed_documents with the collection (main.py:37-53).  The storage   *)
(* mode is never set by ui.py, so it is 'Cloud'.                           *)
(***************************************************************************)
\* whether init_qdrant asks get_cloud_qdrant_client for the client
KeysGiven(api_key, url) == api_key # "" /\ url # ""

\* the client init_qdrant returns (TRUE) or None (FALSE), `cached` being what
\* get_cloud_qdrant_client holds after the call
init_qdrant(api_key, url, cached) == KeysGiven(api_key, url) /\ cached = "client"

\* main.py:45-51 with a connected client: the list to adopt, if any
Reconciled(existing_docs, processed) ==
    IF existing_docs # <<>> THEN existing_docs ELSE processed

InitQdrant ==
    /\ pc = "qdrant"
    /\ \E made \in {"client", "none"}, fail \in 0..1 :
        LET cached == IF KeysGiven(qdrant_api_key, qdrant_url) /\ cloud_client = "uncached"
                      THEN made ELSE cloud_client
            client == init_qdrant(qdrant_api_key, qdrant_url, cached)
        IN /\ cloud_client' = cached
           /\ qdrant_client' = client
           /\ IF client /\ documents_loaded = "absent"
              THEN \* main.py:45: AttributeError, st.session_state has no such key
                   /\ Crash("documents_loaded")
                   /\ UNCHANGED <<processed_documents, documents_loaded,
                                  reconciliations>>
              ELSE IF client /\ documents_loaded = "False"
              THEN /\ processed_documents' =
                        Reconciled(get_indexed_documents(collection_exists, points, fail),
                                   processed_documents)
                   /\ documents_loaded' = "True"
                   /\ reconciliations' = reconciliations + 1
                   /\ pc' = "apikey"
                   /\ UNCHANGED raised
              ELSE /\ pc' = "apikey"
                   /\ UNCHANGED <<processed_documents, documents_loaded, raised,
                                  reconciliations>>
    /\ UNCHANGED <<google_api_key, qdrant_api_key, qdrant_url, vector_store, history,
                   exa_api_key, use_web_search, force_web_search,
                   similarity_threshold, collection_exists, points,
                   prompt, rewritten_query, context, docs, calls, history_before,
                   uploads>>
    /\ UNCHANGED probe

(***************************************************************************)
(* The API key check and the lazy vector store (main.py:64-81, 184-190).   *)
(***************************************************************************)
\* main.py:70
StoreInitDue(client, store, processed) == client /\ ~store /\ processed # <<>>

ApiKey ==
    /\ pc = "apikey"
    /\ IF google_api_key = ""
       THEN \* main.py:184-190: nothing else runs without the key
            /\ pc' = "idle"
            /\ ResetRun
            /\ UNCHANGED vector_store
       ELSE /\ pc' = "pdf"
            /\ IF StoreInitDue(qdrant_client, vector_store, processed_documents)
               THEN \* QdrantVectorStore(...) checks the collection; an
                    \* exception is caught and leaves vector_store None
                    \E ok \in BOOLEAN :
                        /\ ok => collection_exists
                        /\ vector_store' = ok
               ELSE UNCHANGED vector_store
            /\ UNCHANGED <<locals, observed>>
    /\ UNCHANGED <<google_api_key, qdrant_api_key, qdrant_url, processed_documents,
                   history, exa_api_key, use_web_search, force_web_search,
                   similarity_threshold, documents_loaded, database>>
    /\ UNCHANGED <<probe, reconciliations>>

(***************************************************************************)
(* The uploads (main.py:90-111).  `source` is the file name or the URL,    *)
(* None or "" when the widget is empty; `texts` what process_pdf or        *)
(* process_web returned, [] on an extraction error.                        *)
(***************************************************************************)
\* the upload condition without the look-up in processed_documents
UploadDueUnchecked(source, processed) == Truthy(source)

\* main.py:91, 102
UploadDue(source, processed) == Truthy(source) /\ source \notin Range(processed)

\* main.py:94-99, 105-110 once `texts and qdrant_client` holds; `added` tells
\* whether add_documents of main.py:96 succeeds, `out` what the calls of
\* create_vector_store do
Ingest(source, texts, added, out, next) ==
    IF vector_store
    THEN IF added
         THEN /\ points' = points \o texts
              /\ processed_documents' = Append(processed_documents, source)
              /\ pc' = next
              /\ UNCHANGED <<vector_store, collection_exists, raised>>
         ELSE \* add_documents raises and nothing catches it
              /\ Crash("add_documents")
              /\ UNCHANGED <<vector_store, collection_exists, points,
                             processed_documents>>
    ELSE LET r == create_vector_store(collection_exists, points, texts, out) IN
         /\ vector_store' = r.vector_store
         /\ collection_exists' = r.exists
         /\ points' = r.points
         /\ processed_documents' = Append(processed_documents, source)
         /\ pc' = next
         /\ UNCHANGED raised

\* one upload block: main.py:91-100 for the PDF, main.py:102-111 for the URL
Upload(source, texts, added, out, next) ==
    /\ CreatePossible(collection_exists, out.create)
    /\ uploads' = IF Truthy(source)
                  THEN Append(uploads, [source |-> source,
                                        due |-> UploadDue(source, processed_documents)])
                  ELSE uploads
    /\ IF UploadDue(source, processed_documents) /\ texts # <<>> /\ qdrant_client
       THEN Ingest(source, texts, added, out, next)
       ELSE /\ pc' = next
            /\ UNCHANGED <<vector_store, collection_exists, points,
                           processed_documents, raised>>
    /\ UNCHANGED <<google_api_key, qdrant_api_key, qdrant_url, history, exa_api_key,
                   use_web_search, force_web_search, similarity_threshold,
                   documents_loaded, cloud_client, locals, calls, history_before>>
    /\ UNCHANGED <<probe, reconciliations>>

\* process_pdf (services.py:127-150): the chunks of the file, [] on an error
process_pdf(file, extracted) ==
    IF extracted /\ Truthy(file) THEN <<PdfChunk(file)>> ELSE <<>>

\* process_web (services.py:152-180): the chunks of the page, [] on an error
process_web(url, extracted) ==
    IF extracted /\ Truthy(url) THEN <<WebChunk(url)>> ELSE <<>>

UploadPdf ==
    /\ pc = "pdf"
    /\ \E uploaded_file \in {None} \cup PdfNames, extracted \in BOOLEAN,
          added \in BOOLEAN, create \in CreateOutcomes, construct \in BOOLEAN :
        Upload(uploaded_file, process_pdf(uploaded_file, extracted), added,
               [create |-> create, construct |-> construct, add |-> added], "url")

UploadUrl ==
    /\ pc = "url"
    /\ \E web_url \in {<<>>} \cup Urls, extracted \in BOOLEAN,
          added \in BOOLEAN, create \in CreateOutcomes, construct \in BOOLEAN :
        Upload(web_url, process_web(web_url, extracted), added,
               [create |-> create, construct |-> construct, add |-> added], "chat")

(***************************************************************************)
(* The chat input (main.py:113-119, ui.py:80-90).                          *)
(***************************************************************************)
UserTurn(text) == [role |-> "user", content |-> text]
AssistantTurn(text) == [role |-> "assistant", content |-> text]

\* the history has room for one more turn of the model
RoomForTurn == Len(history) + 2 <= 2 * MaxTurns

Chat ==
    /\ pc = "chat"
    /\ \E typed \in {<<>>} \cup Prompts, toggle \in BOOLEAN :
        /\ typed # <<>> => RoomForTurn
        /\ force_web_search' = toggle
        /\ IF typed # <<>>
           THEN /\ history' = Append(history, UserTurn(typed))
                /\ history_before' = history
                /\ prompt' = typed
                /\ pc' = "rewrite"
                /\ uploads' = <<>>
                /\ UNCHANGED <<qdrant_client, rewritten_query, context, docs,
                               calls, raised>>
           ELSE /\ pc' = "idle"
                /\ ResetRun
                /\ UNCHANGED history
    /\ UNCHANGED <<google_api_key, qdrant_api_key, qdrant_url, vector_store,
                   processed_documents, exa_api_key, use_web_search,
                   similarity_threshold, documents_loaded, database>>
    /\ UNCHANGED <<probe, reconciliations>>

(***************************************************************************)
(* The query pipeline (main.py:121-182).                                   *)
(***************************************************************************)
\* a rewrite stage that loses the question when the rewriter raises
RewrittenLostOnFailure(question, failed, content) == IF failed THEN <<>> ELSE content

\* stage 1, main.py:121-131: `failed` when the rewriter raises, `content` what
\* it returns otherwise
Rewritten(question, failed, content) == IF failed THEN question ELSE content

Rewrite ==
    /\ pc = "rewrite"
    /\ \E failed \in BOOLEAN, content \in RewriteOutputs :
        /\ rewritten_query' = Rewritten(prompt, failed, content)
        /\ calls' = [calls EXCEPT !.rewriter = Append(@, prompt)]
        /\ raised' = IF failed THEN raised \cup {"rewrite"} ELSE raised
    /\ pc' = "retrieve"
    /\ UNCHANGED <<session, database, qdrant_client, prompt, context, docs,
                   history_before, uploads>>
    /\ UNCHANGED <<probe, reconciliations>>

\* stage 2, main.py:136
RetrievalDue(force, store) == ~force /\ store

\* a retriever asked the raw prompt
RetrieverCallRawPrompt(query, question, threshold) ==
    [query |-> question, k |-> K, score_threshold |-> threshold]

\* main.py:137-144: what the retriever is asked
RetrieverCall(query, question, threshold) ==
    [query |-> query, k |-> K, score_threshold |-> threshold]

\* the texts of the stored chunks, which the retriever returns from
StoredTexts == {p["page_content"] : p \in {q \in Range(points) : "page_content" \in DOMAIN q}}

\* main.py:145-146
DocsContext(found) == IF found # <<>> THEN Join(found, <<"\n\n">>) ELSE <<>>

Retrieve ==
    /\ pc = "retrieve"
    /\ IF RetrievalDue(force_web_search, vector_store)
       THEN /\ calls' = [calls EXCEPT !.retriever =
                            Append(@, RetrieverCall(rewritten_query, prompt,
                                                    similarity_threshold))]
            /\ \/ \E found \in BoundedSeq(StoredTexts, Min(K, MaxDocs)) :
                    /\ docs' = found
                    /\ context' = DocsContext(found)
                    /\ pc' = "web"
                    /\ UNCHANGED raised
               \/ \* retriever.invoke raises and nothing catches it
                  /\ Crash("retrieve")
                  /\ docs' = <<>>
                  /\ context' = <<>>
       ELSE /\ docs' = <<>>
            /\ context' = <<>>
            /\ pc' = "web"
            /\ UNCHANGED <<calls, raised>>
    /\ UNCHANGED <<session, database, qdrant_client, prompt, rewritten_query,
                   history_before, uploads>>
    /\ UNCHANGED <<probe, reconciliations>>

\* stage 3, main.py:152
WebSearchDue(force, ctx, enabled, key) ==
    (force \/ ctx = <<>>) /\ enabled /\ key # ""

\* a web context without its heading
WebContextNoHeading(ctx, web_results) ==
    IF web_results # <<>> THEN web_results ELSE ctx

\* main.py:157-158
WebContext(ctx, web_results) ==
    IF web_results # <<>> THEN <<"Web Search Results:\n">> \o web_results ELSE ctx

\* a web stage that leaves a heading behind when the search raises
AfterWebSearchPartial(ctx, failed, web_results) ==
    IF failed THEN <<"Web Search Results:\n">> ELSE WebContext(ctx, web_results)

\* the try/except of main.py:154-161: the context after the web search
\* raised (`failed`) or returned web_results
AfterWebSearch(ctx, failed, web_results) ==
    IF failed THEN ctx ELSE WebContext(ctx, web_results)

WebSearch ==
    /\ pc = "web"
    /\ IF WebSearchDue(force_web_search, context, use_web_search, exa_api_key)
       THEN \E failed \in BOOLEAN, web_results \in WebOutputs :
            /\ calls' = [calls EXCEPT !.web =
                            Append(@, [query |-> rewritten_query, failed |-> failed,
                                       content |-> IF failed THEN <<>> ELSE web_results])]
            /\ context' = AfterWebSearch(context, failed, web_results)
            /\ raised' = IF failed THEN raised \cup {"web"} ELSE raised
       ELSE UNCHANGED <<calls, context, raised>>
    /\ pc' = "generate"
    /\ UNCHANGED <<session, database, qdrant_client, prompt, rewritten_query, docs,
                   history_before, uploads>>
    /\ UNCHANGED <<probe, reconciliations>>

\* a prompt that leaves the rewritten question out
FullPromptWithoutRewritten(ctx, question, rewritten) ==
    IF ctx # <<>>
    THEN <<"Context: ">> \o ctx \o <<"\n\nQuestion: ">> \o question
    ELSE <<"Question: ">> \o question

\* stage 4, main.py:167
FullPrompt(ctx, question, rewritten) ==
    IF ctx # <<>>
    THEN <<"Context: ">> \o ctx \o <<"\n\nQuestion: ">> \o question
         \o <<"\nRewritten: ">> \o rewritten
    ELSE <<"Question: ">> \o question

\* a generation stage that records a turn although the agent raised
AnsweredKeepingPartial(turns, failed, content) == Append(turns, AssistantTurn(content))

\* main.py:169-174: the history after the generation agent answered or raised
Answered(turns, failed, content) ==
    IF failed THEN turns ELSE Append(turns, AssistantTurn(content))

Generate ==
    /\ pc = "generate"
    /\ \E failed \in BOOLEAN, content \in Responses :
        /\ calls' = [calls EXCEPT !.rag =
                        Append(@, FullPrompt(context, prompt, rewritten_query))]
        /\ history' = Answered(history, failed, content)
        /\ raised' = IF failed THEN raised \cup {"generate"} ELSE raised
    /\ pc' = "done"
    /\ UNCHANGED <<google_api_key, qdrant_api_key, qdrant_url, vector_store,
                   processed_documents, exa_api_key, use_web_search,
                   force_web_search, similarity_threshold, documents_loaded,
                   database, locals, history_before, uploads>>
    /\ UNCHANGED <<probe, reconciliations>>

\* main() returns, or Streamlit has shown the uncaught exception
EndRun ==
    /\ pc \in {"done", "crashed"}
    /\ pc' = "idle"
    /\ ResetRun
    /\ UNCHANGED <<session, database>>
    /\ UNCHANGED <<probe, reconciliations>>

Next ==
    \/ Sidebar
    \/ InitQdrant
    \/ ApiKey
    \/ UploadPdf
    \/ UploadUrl
    \/ Chat
    \/ Rewrite
    \/ Retrieve
    \/ WebSearch
    \/ Generate
    \/ EndRun

Spec == Init /\ [][Next]_vars

(***************************************************************************)
(* create_vector_store called on its own, any number of times, on a        *)
(* collection that exists or not (services.py:182-214).                    *)
(***************************************************************************)
\* a session that has done nothing
SessionDefaults ==
    /\ google_api_key = ""
    /\ qdrant_api_key = ""
    /\ qdrant_url = ""
    /\ vector_store = FALSE
    /\ processed_documents = <<>>
    /\ history = <<>>
    /\ exa_api_key = ""
    /\ use_web_search = FALSE
    /\ force_web_search = FALSE
    /\ similarity_threshold = DefaultThreshold
    /\ documents_loaded = "absent"
    /\ cloud_client = "uncached"
    /\ FreshRun
    /\ reconciliations = 0

\* the chunk lists handed to create_vector_store
TextsInputs == {<<PdfChunk(IdA)>>, <<WebChunk(IdB)>>, <<PdfChunk(IdA), WebChunk(IdB)>>}

InitStore ==
    /\ SessionDefaults
    /\ pc = "services"
    /\ collection_exists \in BOOLEAN
    /\ points = <<>>
    /\ probe = NoProbe

CallCreateVectorStore ==
    /\ pc = "services"
    /\ \E texts \in TextsInputs, create \in CreateOutcomes,
          construct \in BOOLEAN, add \in BOOLEAN :
        LET out == [create |-> create, construct |-> construct, add |-> add]
            r == create_vector_store(collection_exists, points, texts, out)
        IN /\ CreatePossible(collection_exists, create)
           /\ Len(points) + Len(texts) <= MaxPoints + 1
           /\ collection_exists' = r.exists
           /\ points' = r.points
           /\ probe' = [op |-> "create_vector_store",
                        texts |-> texts,
                        out |-> out,
                        existed |-> collection_exists,
                        stored |-> points,
                        same_as_last |-> probe.op = "create_vector_store"
                                         /\ probe.texts = texts,
                        result |-> r]
    /\ UNCHANGED <<session, cloud_client, pc, locals, observed, reconciliations>>

NextStore == CallCreateVectorStore

SpecStore == InitStore /\ [][NextStore]_vars

(***************************************************************************)
(* get_indexed_documents called on its own on a collection of any content  *)
(* (services.py:49-124).                                                   *)
(***************************************************************************)
\* payloads of the shapes the function probes for, and of shapes it skips
SamplePayloads ==
    {[file_name |-> v] : v \in {IdA, IdB}}
    \cup {[url |-> v] : v \in {IdA, IdB}}
    \cup {[source |-> v] : v \in {IdA, IdB}}
    \cup {[metadata |-> Dict([file_name |-> v])] : v \in {IdA, IdAB}}
    \cup {[metadata |-> Dict([url |-> v])] : v \in {IdA, IdAB}}
    \cup {[metadata |-> Dict([source |-> v])] : v \in {IdA, IdAB}}
    \cup {[file_name |-> IdA, url |-> IdB],
          [file_name |-> <<>>, url |-> IdAB],
          [file_name |-> None, url |-> IdB],
          [url |-> <<>>, source |-> IdA],
          [source |-> <<>>, metadata |-> Dict([file_name |-> IdAB])],
          [metadata |-> Dict([file_name |-> <<>>, url |-> IdB])],
          [metadata |-> Dict([source |-> <<>>])],
          [metadata |-> NotADict],
          [page_content |-> <<"c">>],
          <<>>,
          PdfChunk(IdA),
          WebChunk(IdB)}

InitIndex ==
    /\ SessionDefaults
    /\ pc = "services"
    /\ \/ collection_exists = FALSE /\ points = <<>>
       \/ collection_exists = TRUE /\ points \in BoundedSeq(SamplePayloads, MaxPoints)
    /\ probe = NoProbe

CallGetIndexedDocuments ==
    /\ pc = "services"
    /\ probe = NoProbe
    /\ \E fail \in 0..(MaxPoints + 2) :
        probe' = [op |-> "get_indexed_documents",
                  fail |-> fail,
                  returned |-> IndexedDocuments(collection_exists, points, fail)]
    /\ UNCHANGED <<session, database, pc, locals, observed, reconciliations>>

NextIndex == CallGetIndexedDocuments

SpecIndex == InitIndex /\ [][NextIndex]_vars

(***************************************************************************)
(* Properties of a user turn (main.py:116-182).                            *)
(***************************************************************************)
InTurn == pc \in {"rewrite", "retrieve", "web", "generate", "done"}
AfterRetrievalStage ==
    pc \in {"web", "generate", "done"} \/ (pc = "crashed" /\ "retrieve" \in raised)
AfterWebStage == pc \in {"generate", "done"}
WebAgentRan == calls.web # <<>>
RetrievedNothing == calls.retriever # <<>> /\ docs = <<>>

C2_RetrieverSkippedOrCalledOnce ==
    /\ InTurn /\ (force_web_search \/ ~vector_store) =>
            calls.retriever = <<>> /\ docs = <<>>
    /\ pc \in {"rewrite", "retrieve"} => calls.retriever = <<>>
    /\ AfterRetrievalStage /\ ~force_web_search /\ vector_store =>
            calls.retriever = <<[query |-> rewritten_query, k |-> 5,
                                 score_threshold |-> similarity_threshold]>>

\* a turn whose retriever was asked a rewritten query that differs from the
\* prompt, under a threshold the user moved
C2_Witness ==
    /\ pc = "web"
    /\ Len(calls.retriever) = 1
    /\ rewritten_query # prompt
    /\ similarity_threshold # DefaultThreshold

\* C3, as stated: the prompt given to the generation agent contains the
\* rewritten question, and it contains the context block exactly when the
\* context is not empty
C3_PromptHasRewrittenQuestion ==
    pc = "done" /\ calls.rag # <<>> =>
        /\ Contains(calls.rag[1], rewritten_query)
        /\ context # <<>> => Contains(calls.rag[1], <<"Context: ">> \o context)
        /\ context = <<>> => ~Contains(calls.rag[1], <<"Context: ">>)

\* C3, amended: the prompt given to the generation agent always contains the
\* original question; with a context it also contains the context block and
\* the rewritten question; without one it is "Question: " and the original
\* question and nothing else
C3_PromptByContext ==
    pc = "done" /\ calls.rag # <<>> =>
        /\ Contains(calls.rag[1], prompt)
        /\ context # <<>> =>
            /\ Contains(calls.rag[1], <<"Context: ">> \o context)
            /\ Contains(calls.rag[1], rewritten_query)
        /\ context = <<>> => calls.rag[1] = <<"Question: ">> \o prompt

\* a turn generated without context from a question the rewriter changed
C3_Witness ==
    /\ pc = "done"
    /\ calls.rag # <<>>
    /\ context = <<>>
    /\ rewritten_query # prompt
    /\ "rewrite" \notin raised

\* C4: when the generation agent raises, the history at the end of the turn
\* is the history before it plus the one user turn, and the agent was called
\* once; when it answers, the answer follows that user turn; and every
\* assistant turn of the history comes right after a user turn
C4_NoAnswerOnGenerationFailure ==
    /\ pc = "done" /\ "generate" \in raised =>
            /\ history = Append(history_before, UserTurn(prompt))
            /\ Len(calls.rag) = 1
    /\ pc = "done" /\ "generate" \notin raised =>
            /\ Len(history) = Len(history_before) + 2
            /\ SubSeq(history, 1, Len(history) - 1) =
                    Append(history_before, UserTurn(prompt))
            /\ history[Len(history)].role = "assistant"
    /\ \A i \in 1..Len(history) :
            history[i].role = "assistant" => i > 1 /\ history[i - 1].role = "user"

\* a turn whose generation failed after an earlier turn had been answered
C4_Witness ==
    /\ pc = "done"
    /\ "generate" \in raised
    /\ history_before # <<>>
    /\ history_before[Len(history_before)].role = "assistant"

\* C5: when the rewriter raises, the rewritten query is the prompt from then
\* on, the rewriter was called once, every later call of the turn is made with
\* the prompt, and the run goes on with the retrieval stage: it reaches the
\* generation stage, and ends before it only if the retriever itself raises
C5_RewriteFailureFallsBack ==
    "rewrite" \in raised =>
        /\ rewritten_query = prompt
        /\ calls.rewriter = <<prompt>>
        /\ pc \in {"retrieve", "web", "generate", "done", "crashed"}
        /\ pc = "crashed" => "retrieve" \in raised
        /\ \A i \in 1..Len(calls.retriever) : calls.retriever[i].query = prompt
        /\ \A i \in 1..Len(calls.web) : calls.web[i].query = prompt
        /\ pc = "done" => Len(calls.rag) = 1

\* a turn that went through retrieval, web search and generation after the
\* rewriter had raised
C5_Witness ==
    /\ "rewrite" \in raised
    /\ pc = "done"
    /\ Len(calls.retriever) = 1
    /\ Len(calls.web) = 1
    /\ Len(calls.rag) = 1

\* C6: no source identifier occurs twice in processed_documents
C6_ProcessedDocumentsDistinct == NoDuplicates(processed_documents)

\* a PDF that is stored and listed, submitted again in a run that skips it:
\* it is still stored once and listed once
C6_Witness ==
    /\ pc = "url"
    /\ uploads = <<[source |-> IdA, due |-> FALSE]>>
    /\ points = <<PdfChunk(IdA)>>
    /\ Len(processed_documents) = 1
    /\ processed_documents[1] = IdA
    /\ documents_loaded = "True"
    /\ vector_store

C10_WebFailureLeavesContextEmpty ==
    "web" \in raised =>
        /\ pc \in {"generate", "done"}
        /\ context = <<>>
        /\ pc = "done" =>
            /\ Len(calls.rag) = 1
            /\ calls.rag[1] = <<"Question: ">> \o prompt

\* a turn that was generated after its forced web search had raised
C10_Witness ==
    /\ "web" \in raised
    /\ pc = "done"
    /\ force_web_search
    /\ Len(calls.rag) = 1

(***************************************************************************)
(* Properties of the reconciliation and of the uploads (main.py:37-53,     *)
(* 90-111).                                                                *)
(***************************************************************************)
\* a run that got a connected client from init_qdrant and is past main.py:53
PastReconciliation == qdrant_client /\ pc \notin {"idle", "qdrant"}

\* C11, as stated: in one session the reconciliation (the call of
\* get_indexed_documents at main.py:47) is executed exactly once, on the first
\* run with a connected client, which gets past it without error, and never
\* again: it has not been executed more than once, and every run with a
\* connected client that is past main.py:53 finds it executed once and has
\* raised nothing there
C11_ReconciledOnceAtSessionStart ==
    /\ reconciliations <= 1
    /\ PastReconciliation =>
            /\ reconciliations = 1
            /\ "documents_loaded" \notin raised

\* a step of an upload block (main.py:90-111) that appends to
\* processed_documents has written chunks to the collection, and one whose
\* source was due and that has written nothing leaves the source due
ListsOnlyWhatItWrote ==
    pc \in {"pdf", "url"} =>
        /\ processed_documents' # processed_documents => Len(points') > Len(points)
        /\ (uploads' # uploads /\ uploads'[Len(uploads')].due /\ points' = points) =>
                UploadDue(uploads'[Len(uploads')].source, processed_documents')

C7_OtherFailureReachesCaller ==
    probe.op = "create_vector_store" =>
        /\ probe.out.create = "already exists" =>
                /\ probe.result.reported # "already exists"
                /\ probe.result.built = probe.out.construct
        /\ probe.out.create = "timeout" => probe.result.raised = "timeout"

\* C7, amended: an "already exists" failure of create_collection is not a
\* failure of create_vector_store, which goes on to build the store and to
\* upload the chunks, so that a second call with the same arguments succeeds
\* whenever its own calls do; any other failure of create_collection is caught
\* inside create_vector_store, which reports it, builds no store, uploads
\* nothing and returns None: no exception reaches the caller
C7_AlreadyExistsAbsorbedOthersReported ==
    probe.op = "create_vector_store" =>
        /\ probe.result.raised = "none"
        /\ probe.out.create = "already exists" =>
                /\ probe.result.reported # "already exists"
                /\ probe.result.built = probe.out.construct
                /\ probe.result.vector_store = (probe.out.construct /\ probe.out.add)
                /\ probe.out.construct /\ probe.out.add =>
                        points = probe.stored \o probe.texts
        /\ probe.out.create = "timeout" =>
                /\ ~probe.result.vector_store
                /\ ~probe.result.built
                /\ probe.result.reported = "timeout"
                /\ points = probe.stored
                /\ collection_exists = probe.existed
        /\ probe.same_as_last /\ probe.out.create # "timeout"
           /\ probe.out.construct /\ probe.out.add => probe.result.vector_store

\* a second call with the same chunks, on the collection the first call
\* created, that returns a store and has uploaded the chunks again
C7_Witness ==
    /\ probe.op = "create_vector_store"
    /\ probe.same_as_last
    /\ probe.out.create = "already exists"
    /\ probe.result.vector_store
    /\ points = probe.texts \o probe.texts

(***************************************************************************)
(* Properties of get_indexed_documents (services.py:49-124).               *)
(***************************************************************************)
SourceKeys == {"file_name", "url", "source"}

\* the identifiers a payload carries under file_name, url or source, directly
\* or in a metadata dict
Carried(p) ==
    {v \in {p[k] : k \in SourceKeys \cap DOMAIN p} : Truthy(v)}
    \cup (IF "metadata" \in DOMAIN p /\ p["metadata"].isdict
          THEN {v \in {p["metadata"].d[k] : k \in SourceKeys \cap DOMAIN p["metadata"].d} :
                    Truthy(v)}
          ELSE {})

\* the pages a collection of n records has
Pages(n) == (n + ScrollLimit - 1) \div ScrollLimit

\* C8, as stated: when no call to the store raises, get_indexed_documents
\* returns a list without duplicates, in ascending lexicographic order, that
\* holds an identifier of every record carrying one under file_name, url or
\* source or under these keys in metadata, after one scroll per page
C8_ListsEveryCarriedSource ==
    probe.op = "get_indexed_documents" /\ ~probe.returned.raised =>
        /\ NoDuplicates(probe.returned.result)
        /\ IsSorted(probe.returned.result)
        /\ \A i \in 1..Len(points) :
                Carried(points[i]) # {} =>
                    Carried(points[i]) \cap Range(probe.returned.result) # {}
        /\ points # <<>> => probe.returned.scrolls = Pages(Len(points))

====
